---- MODULE Spec2Model ----
(***************************************************************************)
(* Model of the steam-zktls claim pipeline: prover (capture), present      *)
(* (selective disclosure), verifier and export (Solidity proof adapter).   *)
(* Transcripts are sequences of byte values 0..255; ranges are half-open   *)
(* intervals of 0-based byte offsets, as in the Rust source.               *)
(***************************************************************************)
EXTENDS Integers, Sequences, FiniteSets, TLC

VARIABLES
    running,       \* the stage process currently executing, or "none"
    artifacts,     \* <prefix>.attestation.tlsn / .secrets.tlsn / .claim.json
    presentation,  \* the presentation file
    proof,         \* the Solidity proof JSON file
    prover,        \* prover process: position and locals
    present,       \* present process: position and locals
    verifier,      \* verifier process: position and locals
    export         \* export process: position and locals

vars == <<running, artifacts, presentation, proof, prover, present, verifier, export>>

None == "none"
NotFound == -1

---------------------------------------------------------------------------
(* Byte strings of the source, written out as byte values.                 *)

\* "game_count":1
TRUE_MARKER == <<34, 103, 97, 109, 101, 95, 99, 111, 117, 110, 116, 34, 58, 49>>
\* "game_count":0
FALSE_MARKER == <<34, 103, 97, 109, 101, 95, 99, 111, 117, 110, 116, 34, 58, 48>>
\* "game_count":
GAME_COUNT_PREFIX == <<34, 103, 97, 109, 101, 95, 99, 111, 117, 110, 116, 34, 58>>
\* "appid":
APPID_PREFIX == <<34, 97, 112, 112, 105, 100, 34, 58>>
\* api.steampowered.com
STEAM_API_HOST == <<97, 112, 105, 46, 115, 116, 101, 97, 109, 112, 111, 119, 101, 114, 101, 100, 46, 99, 111, 109>>
\* host
HOST == <<104, 111, 115, 116>>
\* \r\n
CRLF == <<13, 10>>
\* GET
REQ_METHOD == <<71, 69, 84, 32>>
\* /IPlayerService/GetOwnedGames/v1/?key=
REQ_PATH_KEY == <<47, 73, 80, 108, 97, 121, 101, 114, 83, 101, 114, 118, 105, 99, 101, 47, 71, 101, 116, 79, 119, 110, 101, 100, 71, 97, 109, 101, 115, 47, 118, 49, 47, 63, 107, 101, 121, 61>>
\* &steamid=
REQ_PATH_STEAMID == <<38, 115, 116, 101, 97, 109, 105, 100, 61>>
\* &appids_filter%5B0%5D=
REQ_PATH_FILTER == <<38, 97, 112, 112, 105, 100, 115, 95, 102, 105, 108, 116, 101, 114, 37, 53, 66, 48, 37, 53, 68, 61>>
\* &format=json
REQ_PATH_FORMAT == <<38, 102, 111, 114, 109, 97, 116, 61, 106, 115, 111, 110>>
\* " HTTP/1.1"
REQ_VERSION == <<32, 72, 84, 84, 80, 47, 49, 46, 49>>
\* "Host: "
HDR_HOST == <<72, 111, 115, 116, 58, 32>>
\* Accept: application/json
HDR_ACCEPT == <<65, 99, 99, 101, 112, 116, 58, 32, 97, 112, 112, 108, 105, 99, 97, 116, 105, 111, 110, 47, 106, 115, 111, 110>>
\* Connection: close
HDR_CONNECTION == <<67, 111, 110, 110, 101, 99, 116, 105, 111, 110, 58, 32, 99, 108, 111, 115, 101>>
\* HTTP/1.1 200 OK
STATUS_OK == <<72, 84, 84, 80, 47, 49, 46, 49, 32, 50, 48, 48, 32, 79, 75>>
\* content-type: application/json
HDR_CONTENT_TYPE == <<99, 111, 110, 116, 101, 110, 116, 45, 116, 121, 112, 101, 58, 32, 97, 112, 112, 108, 105, 99, 97, 116, 105, 111, 110, 47, 106, 115, 111, 110>>
\* "x-cache: " followed by the obs-text byte 0xFF (not valid UTF-8)
HDR_OBS == <<120, 45, 99, 97, 99, 104, 101, 58, 32, 255>>
\* {"response":{
BODY_OPEN == <<123, 34, 114, 101, 115, 112, 111, 110, 115, 101, 34, 58, 123>>
\* ,"games":[{
BODY_GAMES_OPEN == <<44, 34, 103, 97, 109, 101, 115, 34, 58, 91, 123>>
\* ,"playtime_forever":5}]
BODY_GAMES_CLOSE == <<44, 34, 112, 108, 97, 121, 116, 105, 109, 101, 95, 102, 111, 114, 101, 118, 101, 114, 34, 58, 53, 125, 93>>
\* }}
BODY_CLOSE == <<125, 125>>
\* the caller's Steam API key (a secret)
API_KEY == <<75, 51, 89>>
\* the Steam id resolved from the vanity URL
STEAM_ID == <<55, 54, 53>>
\* U+FFFD REPLACEMENT CHARACTER in UTF-8
REPLACEMENT == <<239, 191, 189>>

\* b'X'
SENTINEL == 88
\* value of a PartialTranscript byte that was never authenticated
UNAUTHED_FILL == 0

---------------------------------------------------------------------------
(* Bounds and input sets.                                                  *)

\* number of segments of a presentation that did not come from `present`
MaxSegs == 2

AppIds == {7, 42}
Timestamps == {1700000000}

---------------------------------------------------------------------------
(* Byte-string helpers.                                                    *)

\* pat occurs in hay at 0-based byte offset off
OccursAt(hay, pat, off) ==
    /\ off >= 0
    /\ off + Len(pat) <= Len(hay)
    /\ \A k \in 1..Len(pat) : hay[off + k] = pat[k]

\* str::contains
Contains(hay, pat) == \E off \in 0..Len(hay) : OccursAt(hay, pat, off)

\* str::find from a starting offset: offset of the first occurrence
FindFrom(hay, pat, from) ==
    IF \E off \in from..Len(hay) : OccursAt(hay, pat, off)
    THEN CHOOSE off \in from..Len(hay) :
            /\ OccursAt(hay, pat, off)
            /\ \A o \in from..(off - 1) : ~OccursAt(hay, pat, o)
    ELSE NotFound

\* str::find
Find(hay, pat) == FindFrom(hay, pat, 0)

\* the half-open range start..end as a set of 0-based offsets
Range(start, end) == start..(end - 1)

\* bytes[start..end]
Slice(bytes, start, end) == SubSeq(bytes, start + 1, end)

\* format!("{}", n) for an unsigned integer
RECURSIVE ToDec(_)
ToDec(n) == IF n < 10 THEN <<48 + n>> ELSE ToDec(n \div 10) \o <<48 + (n % 10)>>

\* u8::to_ascii_lowercase over a byte string
to_lowercase(bytes) ==
    [k \in 1..Len(bytes) |-> IF bytes[k] \in 65..90 THEN bytes[k] + 32 ELSE bytes[k]]

(* String::from_utf8_lossy: well-formed sequences are copied, and each      *)
(* maximal ill-formed prefix is replaced by one U+FFFD (3 bytes).           *)
utf8_char_width(b) ==
    IF b \in 194..223 THEN 2
    ELSE IF b \in 224..239 THEN 3
    ELSE IF b \in 240..244 THEN 4
    ELSE 0

safe_get(s, i) == IF i <= Len(s) THEN s[i] ELSE 0

IsCont(b) == b \in 128..191

Second3Ok(b, c) ==
    \/ b = 224 /\ c \in 160..191
    \/ b \in 225..236 /\ c \in 128..191
    \/ b = 237 /\ c \in 128..159
    \/ b \in 238..239 /\ c \in 128..191

Second4Ok(b, c) ==
    \/ b = 240 /\ c \in 144..191
    \/ b \in 241..243 /\ c \in 128..191
    \/ b = 244 /\ c \in 128..143

\* the chunk starting at 1-based index i: bytes consumed and well-formedness
Utf8Chunk(s, i) ==
    LET b == s[i]
        w == utf8_char_width(b)
    IN  IF b < 128 THEN [n |-> 1, valid |-> TRUE]
        ELSE IF w = 2 THEN
            IF IsCont(safe_get(s, i + 1)) THEN [n |-> 2, valid |-> TRUE]
            ELSE [n |-> 1, valid |-> FALSE]
        ELSE IF w = 3 THEN
            IF ~Second3Ok(b, safe_get(s, i + 1)) THEN [n |-> 1, valid |-> FALSE]
            ELSE IF ~IsCont(safe_get(s, i + 2)) THEN [n |-> 2, valid |-> FALSE]
            ELSE [n |-> 3, valid |-> TRUE]
        ELSE IF w = 4 THEN
            IF ~Second4Ok(b, safe_get(s, i + 1)) THEN [n |-> 1, valid |-> FALSE]
            ELSE IF ~IsCont(safe_get(s, i + 2)) THEN [n |-> 2, valid |-> FALSE]
            ELSE IF ~IsCont(safe_get(s, i + 3)) THEN [n |-> 3, valid |-> FALSE]
            ELSE [n |-> 4, valid |-> TRUE]
        ELSE [n |-> 1, valid |-> FALSE]

\* 1-based index of the first non-ASCII byte at or after i, or Len(s) + 1
NextNonAscii(s, i) ==
    IF \E j \in i..Len(s) : s[j] >= 128
    THEN CHOOSE j \in i..Len(s) :
            /\ s[j] >= 128
            /\ \A k \in i..(j - 1) : s[k] < 128
    ELSE Len(s) + 1

RECURSIVE LossyFrom(_, _)
LossyFrom(s, i) ==
    LET j == NextNonAscii(s, i)
    IN  IF j > Len(s) THEN SubSeq(s, i, Len(s))
        ELSE LET c == Utf8Chunk(s, j)
             IN  SubSeq(s, i, j - 1)
                    \o (IF c.valid THEN SubSeq(s, j, j + c.n - 1) ELSE REPLACEMENT)
                    \o LossyFrom(s, j + c.n)

from_utf8_lossy(bytes) == LossyFrom(bytes, 1)

\* String::from_utf8 succeeds
RECURSIVE ValidFrom(_, _)
ValidFrom(s, i) ==
    LET j == NextNonAscii(s, i)
    IN  IF j > Len(s) THEN TRUE
        ELSE LET c == Utf8Chunk(s, j) IN c.valid /\ ValidFrom(s, j + c.n)

is_utf8(bytes) == ValidFrom(bytes, 1)

\* Sha256 and Keccak-256, modelled as collision-free digests of their input
Sha256(data) == [alg |-> "sha256", data |-> data]
Keccak256(data) == [alg |-> "keccak256", data |-> data]

---------------------------------------------------------------------------
(* The attestation collaborator (tlsn-core), as the stages use it.         *)

\* a PartialTranscript: authenticated bytes in place, every other byte unset
PartialTranscript(sent, received, sent_authed, recv_authed) ==
    [sent |-> [k \in 1..Len(sent) |->
                 IF (k - 1) \in sent_authed THEN sent[k] ELSE UNAUTHED_FILL],
     received |-> [k \in 1..Len(received) |->
                 IF (k - 1) \in recv_authed THEN received[k] ELSE UNAUTHED_FILL],
     sent_authed |-> sent_authed,
     recv_authed |-> recv_authed]

\* set_unauthed filling with the digit b'1' whatever value is asked for
set_unauthed_digit(pt, value) ==
    [pt EXCEPT
       !.sent = [k \in 1..Len(pt.sent) |->
                   IF (k - 1) \in pt.sent_authed THEN pt.sent[k] ELSE 49],
       !.received = [k \in 1..Len(pt.received) |->
                   IF (k - 1) \in pt.recv_authed THEN pt.received[k] ELSE 49]]

\* PartialTranscript::set_unauthed: overwrite every unauthenticated byte
set_unauthed(pt, value) ==
    [pt EXCEPT
       !.sent = [k \in 1..Len(pt.sent) |->
                   IF (k - 1) \in pt.sent_authed THEN pt.sent[k] ELSE value],
       !.received = [k \in 1..Len(pt.received) |->
                   IF (k - 1) \in pt.recv_authed THEN pt.received[k] ELSE value]]

\* PartialTranscript::received_unsafe
received_unsafe(pt) == pt.received

(* Notary keys and signatures.  A signature is the 64-byte r || s pair,     *)
(* kept as two 32-byte words; `prehash` is the digest the notary signed and *)
(* `parity` the recovery id under which that digest recovers the signer.    *)
K256Key == [alg |-> "secp256k1", data |-> "k256_notary", sec1 |-> TRUE]
\* a P-256 notary key whose compressed encoding is also a secp256k1 point
P256KeyOnCurve == [alg |-> "secp256r1", data |-> "p256_notary_a", sec1 |-> TRUE]
\* a P-256 notary key whose encoding is not a secp256k1 point
P256KeyOffCurve == [alg |-> "secp256r1", data |-> "p256_notary_b", sec1 |-> FALSE]

HeaderOf(time) == [id |-> "header", time |-> time]

\* bcs::to_bytes(&attestation.header)
bcs_to_bytes(header) == <<"bcs", header>>

SignatureBy(key, header, parity, recoverable) ==
    [data |-> <<"r_word", "s_word">>,
     signer |-> key.data,
     prehash |-> Sha256(bcs_to_bytes(header)),
     parity |-> parity,
     recoverable |-> recoverable]

\* signature_data.len()
SigLen(signature) == 32 * Len(signature.data)

\* the notaries a session can be attested by: key and signing behaviour
Notaries ==
    { [key |-> K256Key, parity |-> 0, recoverable |-> TRUE],
      [key |-> K256Key, parity |-> 1, recoverable |-> TRUE],
      [key |-> P256KeyOnCurve, parity |-> 0, recoverable |-> TRUE],
      [key |-> P256KeyOnCurve, parity |-> 0, recoverable |-> FALSE],
      [key |-> P256KeyOffCurve, parity |-> 0, recoverable |-> TRUE] }

\* K256VerifyingKey::from_sec1_bytes
from_sec1_bytes(key) == IF key.sec1 THEN key.data ELSE "Err"

(* K256VerifyingKey::recover_from_prehash: the signer's key is recovered    *)
(* only from the digest that was signed, under the matching recovery id,    *)
(* and only when the signature is a secp256k1 signature; any other          *)
(* combination recovers an unrelated key or fails.                          *)
recover_from_prehash(message_hash, signature, recovery_id) ==
    IF ~signature.recoverable THEN "Err"
    ELSE IF /\ message_hash = signature.prehash
            /\ recovery_id = signature.parity
            /\ signature.signer = K256Key.data
         THEN signature.signer
         ELSE "unrelated_key"

\* an attested session, as a presentation file carries it
Presentation(valid, server_name, time, transcript, notary) ==
    [valid |-> valid,
     server_name |-> server_name,
     time |-> time,
     transcript |-> transcript,
     key |-> notary.key,
     header |-> HeaderOf(time),
     signature |-> SignatureBy(notary.key, HeaderOf(time), notary.parity,
                               notary.recoverable)]

---------------------------------------------------------------------------
(* HTTP messages of the capture.                                           *)

\* prover.rs: request_path
request_path(api_key, steam_id, app_id) ==
    REQ_PATH_KEY \o api_key \o REQ_PATH_STEAMID \o steam_id
        \o REQ_PATH_FILTER \o ToDec(app_id) \o REQ_PATH_FORMAT

RequestLine(api_key, steam_id, app_id) ==
    REQ_METHOD \o request_path(api_key, steam_id, app_id) \o REQ_VERSION

HostHeader == HDR_HOST \o STEAM_API_HOST

\* the bytes sent for the GetOwnedGames request
SentBytes(api_key, steam_id, app_id) ==
    RequestLine(api_key, steam_id, app_id) \o CRLF
        \o HostHeader \o CRLF
        \o HDR_ACCEPT \o CRLF
        \o HDR_CONNECTION \o CRLF
        \o CRLF

\* "appid":<app_id>
app_id_pattern(app_id) == APPID_PREFIX \o ToDec(app_id)

\* response bodies of the filtered GetOwnedGames call
BodyOwned(app_id) ==
    BODY_OPEN \o TRUE_MARKER \o BODY_GAMES_OPEN \o app_id_pattern(app_id)
        \o BODY_GAMES_CLOSE \o BODY_CLOSE
BodyNotOwned == BODY_OPEN \o FALSE_MARKER \o BODY_CLOSE
BodyPrivate == BODY_OPEN \o BODY_CLOSE

Bodies(app_id) == {BodyOwned(app_id), BodyNotOwned, BodyPrivate}

\* response header blocks: plain, or with an obs-text header value
ResponseHeaders ==
    { HDR_CONTENT_TYPE \o CRLF,
      HDR_OBS \o CRLF \o HDR_CONTENT_TYPE \o CRLF }

\* what the Steam API can answer: a status and, for 200, the received bytes
Responses(app_id) ==
    { [status |-> 403, headers |-> <<>>, body |-> <<>>] }
    \cup { [status |-> 200, headers |-> h, body |-> b] :
             h \in ResponseHeaders, b \in Bodies(app_id) }

ReceivedBytes(resp) == STATUS_OK \o CRLF \o resp.headers \o CRLF \o resp.body

(* HttpTranscript::parse, as far as `present` reads it: the header lines of *)
(* the first request, each as the span of "name: value" without its CRLF.   *)
RECURSIVE HeaderSpans(_, _)
HeaderSpans(bytes, from) ==
    LET e == FindFrom(bytes, CRLF, from)
    IN  IF e = NotFound \/ e = from THEN <<>>
        ELSE <<[start |-> from, end |-> e]>> \o HeaderSpans(bytes, e + 2)

request_headers(sent) ==
    LET e == FindFrom(sent, CRLF, 0)
    IN  IF e = NotFound THEN <<>> ELSE HeaderSpans(sent, e + 2)

\* header.name
header_name(bytes, span) ==
    LET line == Slice(bytes, span.start, span.end)
        colon == Find(line, <<58>>)
    IN  IF colon = NotFound THEN line ELSE Slice(line, 0, colon)

\* present.rs: the spans passed to reveal_sent
host_header_spans(sent) ==
    LET hs == request_headers(sent)
    IN  { hs[k] : k \in { j \in 1..Len(hs) :
                            to_lowercase(header_name(sent, hs[j])) = HOST } }

SpanOffsets(spans) == UNION { Range(sp.start, sp.end) : sp \in spans }

---------------------------------------------------------------------------
(* Optional values and results.                                            *)

NoneOpt == <<>>
Some(x) == <<x>>
IsSome(o) == Len(o) = 1
Unwrap(o) == o[1]

Err(msg) == Some([ok |-> FALSE, error |-> msg])

---------------------------------------------------------------------------
(* Presentations that reach a verifying party from elsewhere.               *)

\* API.steampowered.com
UpperCaseHost == <<65, 80, 73>> \o SubSeq(STEAM_API_HOST, 4, Len(STEAM_API_HOST))
\* x.api.steampowered.com
SubdomainHost == <<120, 46>> \o STEAM_API_HOST

ServerNames ==
    {NoneOpt, Some(STEAM_API_HOST), Some(UpperCaseHost), Some(SubdomainHost)}

(* A received transcript is a sequence of segments; a segment is a byte     *)
(* string together with whether the presentation reveals it.                *)
SegmentTexts ==
    {TRUE_MARKER, FALSE_MARKER, GAME_COUNT_PREFIX, <<49>>, app_id_pattern(42)}

Segments ==
    { [bytes |-> t, revealed |-> TRUE] : t \in SegmentTexts }
    \cup { [bytes |-> <<49>>, revealed |-> FALSE] }

SegmentLists == UNION { [1..n -> Segments] : n \in 0..MaxSegs }

RECURSIVE SegBytes(_)
SegBytes(segs) ==
    IF Len(segs) = 0 THEN <<>> ELSE segs[1].bytes \o SegBytes(Tail(segs))

RECURSIVE SegAuthed(_, _)
SegAuthed(segs, off) ==
    IF Len(segs) = 0 THEN {}
    ELSE (IF segs[1].revealed THEN Range(off, off + Len(segs[1].bytes)) ELSE {})
            \cup SegAuthed(Tail(segs), off + Len(segs[1].bytes))

\* the sent side of such a presentation: a hidden request line, the Host line
ForeignSent == <<71>> \o CRLF \o HostHeader \o CRLF
ForeignSentAuthed == Range(3, 3 + Len(HostHeader))

ForeignTranscripts ==
    {NoneOpt} \cup
    { Some(PartialTranscript(ForeignSent, SegBytes(segs),
                             ForeignSentAuthed, SegAuthed(segs, 0))) :
        segs \in SegmentLists }

ForeignPresentations ==
    { Presentation(valid, sn, t, tr, n) :
        valid \in BOOLEAN, sn \in ServerNames, t \in Timestamps,
        tr \in ForeignTranscripts, n \in Notaries }

---------------------------------------------------------------------------
(* Initial state: nothing has run, no file exists.                         *)

ProverInit ==
    [pc |-> "idle", app_id |-> 0, owns_game |-> FALSE,
     sent |-> <<>>, received |-> <<>>, result |-> "none"]

PresentInit ==
    [pc |-> "idle", app_id |-> 0, secrets |-> NoneOpt, game_range |-> NoneOpt,
     sent_authed |-> {}, recv_authed |-> {}, built |-> NoneOpt,
     result |-> "none"]

VerifierInit ==
    [pc |-> "idle", app_id |-> 0, pres |-> NoneOpt, verify_calls |-> 0,
     output |-> NoneOpt, partial |-> NoneOpt, transcript_hash |-> NoneOpt,
     owns_game |-> FALSE, doesnt_own |-> FALSE, result |-> NoneOpt,
     stdout |-> "", exit_code |-> -1]

ExportInit ==
    [pc |-> "idle", pres |-> NoneOpt, verify_calls |-> 0, output |-> NoneOpt,
     partial |-> NoneOpt, transcript_hash |-> NoneOpt,
     owns_game |-> FALSE, doesnt_own |-> FALSE,
     message_hash |-> NoneOpt, sha256_hash |-> NoneOpt,
     notary_address |-> NoneOpt, recovery_id |-> NoneOpt,
     result |-> "none"]

Init ==
    /\ running = None
    /\ artifacts = NoneOpt
    /\ presentation = NoneOpt
    /\ proof = NoneOpt
    /\ prover = ProverInit
    /\ present = PresentInit
    /\ verifier = VerifierInit
    /\ export = ExportInit

---------------------------------------------------------------------------
(* prover: capture one attested GetOwnedGames call.                        *)

\* main: resolve the vanity URL, then enter generate_attestation
CStart(app_id, resolved) ==
    /\ running = None
    /\ prover.pc = "idle"
    /\ IF resolved
       THEN /\ prover' = [prover EXCEPT !.pc = "request", !.app_id = app_id]
            /\ running' = "prover"
       ELSE /\ prover' = [prover EXCEPT !.pc = "done", !.app_id = app_id,
                                        !.result = "err"]
            /\ running' = None
    /\ UNCHANGED <<artifacts, presentation, proof, present, verifier, export>>

\* generate_attestation: the request through the MPC-TLS connection
CRequest(resp) ==
    /\ running = "prover"
    /\ prover.pc = "request"
    /\ IF resp.status # 200 \/ ~is_utf8(resp.body)
       THEN /\ prover' = [prover EXCEPT !.pc = "done", !.result = "err"]
            /\ running' = None
       ELSE /\ prover' = [prover EXCEPT
                  !.pc = "notarize",
                  !.owns_game = Contains(resp.body, TRUE_MARKER),
                  !.sent = SentBytes(API_KEY, STEAM_ID, prover.app_id),
                  !.received = ReceivedBytes(resp)]
            /\ running' = "prover"
    /\ UNCHANGED <<artifacts, presentation, proof, present, verifier, export>>

\* generate_attestation: notarize, then write attestation, secrets and claim
CFinalize(notary, time, notarized) ==
    /\ running = "prover"
    /\ prover.pc = "notarize"
    /\ IF notarized
       THEN /\ artifacts' = Some(
                  [attestation |-> [notary |-> notary, time |-> time],
                   secrets |-> [sent |-> prover.sent,
                                received |-> prover.received,
                                server_name |-> STEAM_API_HOST],
                   claim |-> [app_id |-> prover.app_id,
                              owns_game |-> prover.owns_game]])
            /\ prover' = [prover EXCEPT !.pc = "done", !.result = "ok"]
       ELSE /\ artifacts' = artifacts
            /\ prover' = [prover EXCEPT !.pc = "done", !.result = "err"]
    /\ running' = None
    /\ UNCHANGED <<presentation, proof, present, verifier, export>>

---------------------------------------------------------------------------
(* present: build the selective-disclosure presentation.                   *)

\* main: load attestation, secrets and claim; check the requested app id
PLoad(app_id) ==
    /\ running = None
    /\ present.pc = "idle"
    /\ IF artifacts = NoneOpt \/ Unwrap(artifacts).claim.app_id # app_id
       THEN /\ present' = [present EXCEPT !.pc = "done", !.app_id = app_id,
                                          !.result = "err"]
            /\ running' = None
       ELSE /\ present' = [present EXCEPT !.pc = "find", !.app_id = app_id,
                                          !.secrets = Some(Unwrap(artifacts).secrets)]
            /\ running' = "present"
    /\ UNCHANGED <<artifacts, presentation, proof, prover, verifier, export>>

\* PFind falling back to offset 0 when the pattern is absent
PFind_or_zero ==
    /\ running = "present"
    /\ present.pc = "find"
    /\ LET recv_data == Unwrap(present.secrets).received
           recv_str == from_utf8_lossy(recv_data)
           pattern == app_id_pattern(present.app_id)
           found == Find(recv_str, pattern)
           start == IF found = NotFound THEN 0 ELSE found
       IN  /\ present' = [present EXCEPT
                  !.pc = "reveal",
                  !.game_range = Some([start |-> start,
                                       end |-> start + Len(pattern)])]
           /\ running' = "present"
    /\ UNCHANGED <<artifacts, presentation, proof, prover, verifier, export>>

\* main: locate "appid":<app_id> in the received data
PFind ==
    /\ running = "present"
    /\ present.pc = "find"
    /\ LET recv_data == Unwrap(present.secrets).received
           recv_str == from_utf8_lossy(recv_data)
           pattern == app_id_pattern(present.app_id)
           start == Find(recv_str, pattern)
       IN  IF start = NotFound
           THEN /\ present' = [present EXCEPT !.pc = "done", !.result = "err"]
                /\ running' = None
           ELSE /\ present' = [present EXCEPT
                      !.pc = "reveal",
                      !.game_range = Some([start |-> start,
                                           end |-> start + Len(pattern)])]
                /\ running' = "present"
    /\ UNCHANGED <<artifacts, presentation, proof, prover, verifier, export>>

\* main: reveal the Host header(s) of the first request and the game range
PReveal ==
    /\ running = "present"
    /\ present.pc = "reveal"
    /\ LET secrets == Unwrap(present.secrets)
           game_range == Unwrap(present.game_range)
       IN  IF game_range.end > Len(secrets.received)
           THEN /\ present' = [present EXCEPT !.pc = "done", !.result = "err"]
                /\ running' = None
           ELSE /\ present' = [present EXCEPT
                      !.pc = "write",
                      !.sent_authed = SpanOffsets(host_header_spans(secrets.sent)),
                      !.recv_authed = Range(game_range.start, game_range.end)]
                /\ running' = "present"
    /\ UNCHANGED <<artifacts, presentation, proof, prover, verifier, export>>

\* main: build the presentation and write it to the output path
PWrite ==
    /\ running = "present"
    /\ present.pc = "write"
    /\ LET attestation == Unwrap(artifacts).attestation
           secrets == Unwrap(present.secrets)
           built == Presentation(TRUE, Some(secrets.server_name),
                        attestation.time,
                        Some(PartialTranscript(secrets.sent, secrets.received,
                                 present.sent_authed, present.recv_authed)),
                        attestation.notary)
       IN  /\ presentation' = Some(built)
           /\ present' = [present EXCEPT !.pc = "done", !.built = Some(built),
                                         !.result = "ok"]
    /\ running' = None
    /\ UNCHANGED <<artifacts, proof, prover, verifier, export>>

(* A verifying party receives a presentation file from another party.  It   *)
(* holds no secrets, so neither prover nor present runs at its site.        *)
Receive ==
    /\ running = None
    /\ presentation = NoneOpt
    /\ prover.pc = "idle"
    /\ present.pc = "idle"
    /\ verifier.pc = "idle"
    /\ export.pc = "idle"
    /\ \E p \in ForeignPresentations : presentation' = Some(p)
    /\ prover' = [prover EXCEPT !.pc = "absent"]
    /\ present' = [present EXCEPT !.pc = "absent"]
    /\ UNCHANGED <<running, artifacts, proof, verifier, export>>

---------------------------------------------------------------------------
(* verifier: verify a presentation and classify the revealed fact.         *)

\* Presentation::verify: the verified output, or an error
presentation_verify(p) ==
    IF p.valid
    THEN Some([server_name |-> p.server_name, time |-> p.time,
               transcript |-> p.transcript,
               header |-> p.header, signature |-> p.signature])
    ELSE NoneOpt

\* verify: read and deserialize the presentation file
VLoad(app_id) ==
    /\ running = None
    /\ verifier.pc = "idle"
    /\ IF presentation = NoneOpt
       THEN /\ verifier' = [verifier EXCEPT !.pc = "exit", !.app_id = app_id,
                                !.result = Err("io")]
       ELSE /\ verifier' = [verifier EXCEPT !.pc = "verify", !.app_id = app_id,
                                !.pres = presentation]
    /\ running' = "verifier"
    /\ UNCHANGED <<artifacts, presentation, proof, prover, present, export>>

\* VVerify with the verification error discarded
VVerify_unchecked ==
    /\ running = "verifier"
    /\ verifier.pc = "verify"
    /\ LET p == Unwrap(verifier.pres)
       IN  verifier' = [verifier EXCEPT !.pc = "server",
                            !.verify_calls = @ + 1,
                            !.output = presentation_verify([p EXCEPT !.valid = TRUE])]
    /\ UNCHANGED <<running, artifacts, presentation, proof, prover, present, export>>

\* verify: presentation.verify(&provider)?
VVerify ==
    /\ running = "verifier"
    /\ verifier.pc = "verify"
    /\ LET out == presentation_verify(Unwrap(verifier.pres))
       IN  IF out = NoneOpt
           THEN verifier' = [verifier EXCEPT !.pc = "exit",
                                !.verify_calls = @ + 1,
                                !.result = Err("crypto")]
           ELSE verifier' = [verifier EXCEPT !.pc = "server",
                                !.verify_calls = @ + 1,
                                !.output = out]
    /\ UNCHANGED <<running, artifacts, presentation, proof, prover, present, export>>

\* VServer comparing host names without regard to case
VServer_ignore_case ==
    /\ running = "verifier"
    /\ verifier.pc = "server"
    /\ LET server_name == Unwrap(verifier.output).server_name
       IN  IF server_name = NoneOpt
           THEN verifier' = [verifier EXCEPT !.pc = "exit",
                                !.result = Err("No server name in proof")]
           ELSE IF to_lowercase(Unwrap(server_name)) # STEAM_API_HOST
           THEN verifier' = [verifier EXCEPT !.pc = "exit",
                                !.result = Err("Invalid server")]
           ELSE verifier' = [verifier EXCEPT !.pc = "transcript"]
    /\ UNCHANGED <<running, artifacts, presentation, proof, prover, present, export>>

\* verify: the server name must be present and equal api.steampowered.com
VServer ==
    /\ running = "verifier"
    /\ verifier.pc = "server"
    /\ LET server_name == Unwrap(verifier.output).server_name
       IN  IF server_name = NoneOpt
           THEN verifier' = [verifier EXCEPT !.pc = "exit",
                                !.result = Err("No server name in proof")]
           ELSE IF Unwrap(server_name) # STEAM_API_HOST
           THEN verifier' = [verifier EXCEPT !.pc = "exit",
                                !.result = Err("Invalid server")]
           ELSE verifier' = [verifier EXCEPT !.pc = "transcript"]
    /\ UNCHANGED <<running, artifacts, presentation, proof, prover, present, export>>

\* VTranscript with the true marker honoured only when the false one is absent
VTranscript_exclusive ==
    /\ running = "verifier"
    /\ verifier.pc = "transcript"
    /\ LET transcript == Unwrap(verifier.output).transcript
       IN  IF transcript = NoneOpt
           THEN verifier' = [verifier EXCEPT !.pc = "exit",
                                !.result = Err("No transcript in proof")]
           ELSE LET partial_transcript == set_unauthed(Unwrap(transcript), SENTINEL)
                    transcript_bytes == received_unsafe(partial_transcript)
                    recv == from_utf8_lossy(transcript_bytes)
                IN  verifier' = [verifier EXCEPT
                        !.pc = "classify",
                        !.partial = Some(partial_transcript),
                        !.transcript_hash = Some(Sha256(transcript_bytes)),
                        !.owns_game = Contains(recv, TRUE_MARKER)
                                        /\ ~Contains(recv, FALSE_MARKER),
                        !.doesnt_own = Contains(recv, FALSE_MARKER)]
    /\ UNCHANGED <<running, artifacts, presentation, proof, prover, present, export>>

\* verify: set_unauthed(b'X'), hash the received bytes, scan for the markers
VTranscript ==
    /\ running = "verifier"
    /\ verifier.pc = "transcript"
    /\ LET transcript == Unwrap(verifier.output).transcript
       IN  IF transcript = NoneOpt
           THEN verifier' = [verifier EXCEPT !.pc = "exit",
                                !.result = Err("No transcript in proof")]
           ELSE LET partial_transcript == set_unauthed(Unwrap(transcript), SENTINEL)
                    transcript_bytes == received_unsafe(partial_transcript)
                    recv == from_utf8_lossy(transcript_bytes)
                IN  verifier' = [verifier EXCEPT
                        !.pc = "classify",
                        !.partial = Some(partial_transcript),
                        !.transcript_hash = Some(Sha256(transcript_bytes)),
                        !.owns_game = Contains(recv, TRUE_MARKER),
                        !.doesnt_own = Contains(recv, FALSE_MARKER)]
    /\ UNCHANGED <<running, artifacts, presentation, proof, prover, present, export>>

\* VClassify with the ambiguity check dropped: neither marker reads as false
VClassify_default_false ==
    /\ running = "verifier"
    /\ verifier.pc = "classify"
    /\ verifier' = [verifier EXCEPT !.pc = "exit",
                        !.result = Some(
                            [ok |-> TRUE,
                             owns_game |-> verifier.owns_game,
                             timestamp |-> Unwrap(verifier.output).time,
                             transcript_hash |-> Unwrap(verifier.transcript_hash)])]
    /\ UNCHANGED <<running, artifacts, presentation, proof, prover, present, export>>

\* verify: reject when neither marker is revealed, else the result
VClassify ==
    /\ running = "verifier"
    /\ verifier.pc = "classify"
    /\ IF ~verifier.owns_game /\ ~verifier.doesnt_own
       THEN verifier' = [verifier EXCEPT !.pc = "exit",
                            !.result = Err("Invalid proof - no game_count revealed")]
       ELSE verifier' = [verifier EXCEPT !.pc = "exit",
                            !.result = Some(
                                [ok |-> TRUE,
                                 owns_game |-> verifier.owns_game,
                                 timestamp |-> Unwrap(verifier.output).time,
                                 transcript_hash |-> Unwrap(verifier.transcript_hash)])]
    /\ UNCHANGED <<running, artifacts, presentation, proof, prover, present, export>>

\* main: report the result on stdout and as the exit code
VMain(json) ==
    /\ running = "verifier"
    /\ verifier.pc = "exit"
    /\ LET result == Unwrap(verifier.result)
       IN  IF result.ok
           THEN verifier' = [verifier EXCEPT
                    !.pc = "done",
                    !.stdout = IF json THEN "json"
                               ELSE IF result.owns_game THEN "yes" ELSE "no",
                    !.exit_code = IF result.owns_game THEN 0 ELSE 1]
           ELSE verifier' = [verifier EXCEPT
                    !.pc = "done",
                    !.stdout = IF json THEN "" ELSE "no",
                    !.exit_code = 1]
    /\ running' = None
    /\ UNCHANGED <<artifacts, presentation, proof, prover, present, export>>

---------------------------------------------------------------------------
(* export: adapt a verified presentation into a Solidity proof.            *)

\* pubkey_to_address: last 20 bytes of keccak256 of the uncompressed point
pubkey_to_address(key) ==
    IF from_sec1_bytes(key) = "Err" THEN NoneOpt
    ELSE Some([last20 |-> Keccak256(<<"uncompressed", from_sec1_bytes(key)>>)])

\* find_recovery_id accepting the first id under which recovery succeeds
find_recovery_id_any(key, message_hash, signature) ==
    LET verifying_key == from_sec1_bytes(key)
    IN  IF verifying_key = "Err" THEN NoneOpt
        ELSE IF recover_from_prehash(message_hash, signature, 0) # "Err"
        THEN Some(0)
        ELSE IF recover_from_prehash(message_hash, signature, 1) # "Err"
        THEN Some(1)
        ELSE NoneOpt

\* find_recovery_id: try recovery ids 0 and 1 in order
find_recovery_id(key, message_hash, signature) ==
    LET verifying_key == from_sec1_bytes(key)
    IN  IF verifying_key = "Err" THEN NoneOpt
        ELSE IF recover_from_prehash(message_hash, signature, 0) = verifying_key
        THEN Some(0)
        ELSE IF recover_from_prehash(message_hash, signature, 1) = verifying_key
        THEN Some(1)
        ELSE NoneOpt

\* main: read and deserialize the presentation file
ELoad ==
    /\ running = None
    /\ export.pc = "idle"
    /\ IF presentation = NoneOpt
       THEN /\ export' = [export EXCEPT !.pc = "done", !.result = "err"]
            /\ running' = None
       ELSE /\ export' = [export EXCEPT !.pc = "verify", !.pres = presentation]
            /\ running' = "export"
    /\ UNCHANGED <<artifacts, presentation, proof, prover, present, verifier>>

\* main: presentation.verify(&provider)?
EVerify ==
    /\ running = "export"
    /\ export.pc = "verify"
    /\ LET out == presentation_verify(Unwrap(export.pres))
       IN  IF out = NoneOpt
           THEN /\ export' = [export EXCEPT !.pc = "done",
                                 !.verify_calls = @ + 1, !.result = "err"]
                /\ running' = None
           ELSE /\ export' = [export EXCEPT !.pc = "transcript",
                                 !.verify_calls = @ + 1, !.output = out]
                /\ running' = "export"
    /\ UNCHANGED <<artifacts, presentation, proof, prover, present, verifier>>

\* main: server name present, set_unauthed(b'X'), marker scan, transcript hash
ETranscript ==
    /\ running = "export"
    /\ export.pc = "transcript"
    /\ LET out == Unwrap(export.output)
       IN  IF out.server_name = NoneOpt \/ out.transcript = NoneOpt
           THEN /\ export' = [export EXCEPT !.pc = "done", !.result = "err"]
                /\ running' = None
           ELSE LET partial_transcript == set_unauthed(Unwrap(out.transcript), SENTINEL)
                    recv == from_utf8_lossy(received_unsafe(partial_transcript))
                    owns_game == Contains(recv, TRUE_MARKER)
                    doesnt_own == Contains(recv, FALSE_MARKER)
                IN  IF ~owns_game /\ ~doesnt_own
                    THEN /\ export' = [export EXCEPT
                                !.pc = "done",
                                !.partial = Some(partial_transcript),
                                !.owns_game = owns_game,
                                !.doesnt_own = doesnt_own,
                                !.result = "err"]
                         /\ running' = None
                    ELSE /\ export' = [export EXCEPT
                                !.pc = "signature",
                                !.partial = Some(partial_transcript),
                                !.owns_game = owns_game,
                                !.doesnt_own = doesnt_own,
                                !.transcript_hash = Some(Sha256(
                                    received_unsafe(partial_transcript)))]
                         /\ running' = "export"
    /\ UNCHANGED <<artifacts, presentation, proof, prover, present, verifier>>

\* main: signature length, header hashes, notary address
ESignature ==
    /\ running = "export"
    /\ export.pc = "signature"
    /\ LET out == Unwrap(export.output)
           verifying_key == Unwrap(export.pres).key
           header_bytes == bcs_to_bytes(out.header)
           notary_address == pubkey_to_address(verifying_key)
       IN  IF SigLen(out.signature) # 64 \/ notary_address = NoneOpt
           THEN /\ export' = [export EXCEPT !.pc = "done", !.result = "err"]
                /\ running' = None
           ELSE /\ export' = [export EXCEPT
                      !.pc = "recover",
                      !.message_hash = Some(Keccak256(header_bytes)),
                      !.notary_address = notary_address,
                      !.sha256_hash = Some(Sha256(header_bytes))]
                /\ running' = "export"
    /\ UNCHANGED <<artifacts, presentation, proof, prover, present, verifier>>

\* main: find_recovery_id(&verifying_key.data, &sha256_hash, &signature)?
ERecover ==
    /\ running = "export"
    /\ export.pc = "recover"
    /\ LET recovery_id == find_recovery_id(Unwrap(export.pres).key,
                              Unwrap(export.sha256_hash),
                              Unwrap(export.output).signature)
       IN  IF recovery_id = NoneOpt
           THEN /\ export' = [export EXCEPT !.pc = "done", !.result = "err"]
                /\ running' = None
           ELSE /\ export' = [export EXCEPT !.pc = "write",
                                 !.recovery_id = recovery_id]
                /\ running' = "export"
    /\ UNCHANGED <<artifacts, presentation, proof, prover, present, verifier>>

\* EWrite emitting the Keccak-256 digest held in message_hash
EWrite_keccak ==
    /\ running = "export"
    /\ export.pc = "write"
    /\ LET out == Unwrap(export.output)
       IN  proof' = Some(
              [notary_address |-> Unwrap(export.notary_address),
               signature_r |-> out.signature.data[1],
               signature_s |-> out.signature.data[2],
               signature_v |-> Unwrap(export.recovery_id) + 27,
               message_hash |-> Unwrap(export.message_hash),
               server_name |-> Unwrap(out.server_name),
               timestamp |-> out.time,
               owns_game |-> export.owns_game,
               transcript_hash |-> Unwrap(export.transcript_hash)])
    /\ export' = [export EXCEPT !.pc = "done", !.result = "ok"]
    /\ running' = None
    /\ UNCHANGED <<artifacts, presentation, prover, present, verifier>>

\* main: assemble the SolidityProof and write it to the output path
EWrite ==
    /\ running = "export"
    /\ export.pc = "write"
    /\ LET out == Unwrap(export.output)
       IN  proof' = Some(
              [notary_address |-> Unwrap(export.notary_address),
               signature_r |-> out.signature.data[1],
               signature_s |-> out.signature.data[2],
               signature_v |-> Unwrap(export.recovery_id) + 27,
               message_hash |-> Unwrap(export.sha256_hash),
               server_name |-> Unwrap(out.server_name),
               timestamp |-> out.time,
               owns_game |-> export.owns_game,
               transcript_hash |-> Unwrap(export.transcript_hash)])
    /\ export' = [export EXCEPT !.pc = "done", !.result = "ok"]
    /\ running' = None
    /\ UNCHANGED <<artifacts, presentation, prover, present, verifier>>

---------------------------------------------------------------------------

Next ==
    \/ \E app_id \in AppIds, resolved \in BOOLEAN : CStart(app_id, resolved)
    \/ \E resp \in Responses(prover.app_id) : CRequest(resp)
    \/ \E notary \in Notaries, time \in Timestamps, notarized \in BOOLEAN :
          CFinalize(notary, time, notarized)
    \/ \E app_id \in AppIds : PLoad(app_id)
    \/ PFind
    \/ PReveal
    \/ PWrite
    \/ Receive
    \/ \E app_id \in AppIds : VLoad(app_id)
    \/ VVerify
    \/ VServer
    \/ VTranscript
    \/ VClassify
    \/ \E json \in BOOLEAN : VMain(json)
    \/ ELoad
    \/ EVerify
    \/ ETranscript
    \/ ESignature
    \/ ERecover
    \/ EWrite

Spec == Init /\ [][Next]_vars

---------------------------------------------------------------------------
(* Properties.                                                             *)

\* the received bytes of a transcript with every unrevealed byte as b'X'
RedactedReceived(pt) ==
    [k \in 1..Len(pt.received) |->
        IF (k - 1) \in pt.recv_authed THEN pt.received[k] ELSE 88]

HasTranscript(p) == IsSome(p.transcript)

RevealsTrue(p) == Contains(RedactedReceived(Unwrap(p.transcript)), TRUE_MARKER)
RevealsFalse(p) == Contains(RedactedReceived(Unwrap(p.transcript)), FALSE_MARKER)

\* a cryptographically valid presentation revealing neither marker
Ambiguous(p) ==
    p.valid /\ HasTranscript(p) /\ ~RevealsTrue(p) /\ ~RevealsFalse(p)

VerifierFinished == verifier.pc \in {"exit", "done"} /\ IsSome(verifier.pres)
VerifierOk == IsSome(verifier.result) /\ Unwrap(verifier.result).ok

(* C1: for a cryptographically valid presentation whose redacted received   *)
(* bytes contain neither "game_count":1 nor "game_count":0, verify() ends   *)
(* in an error and export ends in an error with no proof file written;      *)
(* neither yields a boolean outcome.                                        *)
C1_AmbiguityRejected ==
    /\ (VerifierFinished /\ Ambiguous(Unwrap(verifier.pres)))
          => ~Unwrap(verifier.result).ok
    /\ (IsSome(export.pres) /\ Ambiguous(Unwrap(export.pres)))
          => /\ proof = NoneOpt
             /\ export.pc \notin {"signature", "recover", "write"}
             /\ export.pc = "done" => export.result = "err"

C1_Witness ==
    /\ verifier.pc = "done"
    /\ IsSome(verifier.pres)
    /\ Ambiguous(Unwrap(verifier.pres))
    /\ Unwrap(verifier.pres).server_name = Some(STEAM_API_HOST)
    /\ Unwrap(verifier.result) = [ok |-> FALSE,
                                  error |-> "Invalid proof - no game_count revealed"]
    /\ export.pc = "done"
    /\ export.pres = verifier.pres
    /\ export.result = "err"
    /\ proof = NoneOpt

(* C2: when verify() succeeds the outcome is true whenever the true marker  *)
(* occurs in the redacted received bytes, also next to the false marker;    *)
(* it is false exactly when the false marker occurs and the true one does   *)
(* not; a presentation with neither marker yields no boolean.               *)
C2_OutcomeClassification ==
    VerifierFinished =>
        LET p == Unwrap(verifier.pres)
            r == Unwrap(verifier.result)
        IN  /\ r.ok => /\ HasTranscript(p)
                       /\ RevealsTrue(p) \/ RevealsFalse(p)
                       /\ r.owns_game = RevealsTrue(p)
                       /\ (~r.owns_game) = (RevealsFalse(p) /\ ~RevealsTrue(p))
            /\ (/\ p.valid
                /\ p.server_name = Some(STEAM_API_HOST)
                /\ HasTranscript(p)
                /\ RevealsTrue(p) \/ RevealsFalse(p)) => r.ok

C2_Witness ==
    /\ verifier.pc = "done"
    /\ VerifierOk
    /\ RevealsTrue(Unwrap(verifier.pres))
    /\ RevealsFalse(Unwrap(verifier.pres))
    /\ Unwrap(verifier.result).owns_game

(* C3: the presentation that present builds from the capture artifacts is   *)
(* accepted by the verifier, with the outcome equal to the owns_game value  *)
(* recorded in the claim.                                                   *)
C3_RoundTrip ==
    (/\ verifier.pc = "done"
     /\ IsSome(present.built)
     /\ verifier.pres = present.built)
        => /\ VerifierOk
           /\ Unwrap(verifier.result).owns_game = Unwrap(artifacts).claim.owns_game

(* C4: verify() succeeds only if the redacted received bytes contain the    *)
(* marker "appid":<app_id> of the app id the caller supplied.               *)
C4_IdentifierChecked ==
    (VerifierFinished /\ VerifierOk)
        => Contains(RedactedReceived(Unwrap(Unwrap(verifier.pres).transcript)),
                    app_id_pattern(verifier.app_id))

(* C5: verify() returns an error for every presentation whose server name   *)
(* is absent or is not exactly "api.steampowered.com", whatever the         *)
(* transcript reveals.                                                      *)
C5_IdentityCheck ==
    (/\ VerifierFinished
     /\ Unwrap(verifier.pres).server_name # Some(STEAM_API_HOST))
        => ~Unwrap(verifier.result).ok

C5_Witness ==
    /\ verifier.pc = "done"
    /\ IsSome(verifier.pres)
    /\ Unwrap(verifier.pres).valid
    /\ Unwrap(verifier.pres).server_name = Some(UpperCaseHost)
    /\ HasTranscript(Unwrap(verifier.pres))
    /\ RevealsTrue(Unwrap(verifier.pres))
    /\ Unwrap(verifier.result) = [ok |-> FALSE, error |-> "Invalid server"]

(* C6: in verifier and export the presentation is verified, successfully    *)
(* and once, before the transcript is substituted, scanned or hashed and    *)
(* before a result or proof is produced; a failed verification ends the     *)
(* stage in an error with no outcome and no proof file.                     *)
C6_VerifyBeforeTrust ==
    /\ verifier.verify_calls <= 1
    /\ export.verify_calls <= 1
    /\ (\/ verifier.pc \in {"server", "transcript", "classify"}
        \/ IsSome(verifier.output)
        \/ IsSome(verifier.partial)
        \/ IsSome(verifier.transcript_hash)
        \/ verifier.owns_game
        \/ verifier.doesnt_own
        \/ VerifierOk)
          => /\ verifier.verify_calls = 1
             /\ Unwrap(verifier.pres).valid
    /\ (\/ export.pc \in {"transcript", "signature", "recover", "write"}
        \/ IsSome(export.output)
        \/ IsSome(export.partial)
        \/ IsSome(export.transcript_hash)
        \/ export.owns_game
        \/ export.doesnt_own
        \/ export.result = "ok"
        \/ IsSome(proof))
          => /\ export.verify_calls = 1
             /\ Unwrap(export.pres).valid
    /\ (/\ IsSome(verifier.pres)
        /\ ~Unwrap(verifier.pres).valid
        /\ verifier.verify_calls = 1)
          => /\ verifier.pc \in {"exit", "done"}
             /\ verifier.result = Err("crypto")
    /\ (/\ IsSome(export.pres)
        /\ ~Unwrap(export.pres).valid
        /\ export.verify_calls = 1)
          => /\ export.pc = "done"
             /\ export.result = "err"
             /\ proof = NoneOpt

C6_Witness ==
    /\ verifier.pc = "done"
    /\ export.pc = "done"
    /\ IsSome(verifier.pres)
    /\ export.pres = verifier.pres
    /\ ~Unwrap(verifier.pres).valid
    /\ Unwrap(verifier.pres).server_name = Some(STEAM_API_HOST)
    /\ HasTranscript(Unwrap(verifier.pres))
    /\ RevealsTrue(Unwrap(verifier.pres))
    /\ verifier.verify_calls = 1
    /\ export.verify_calls = 1
    /\ verifier.result = Err("crypto")
    /\ export.result = "err"
    /\ verifier.partial = NoneOpt
    /\ export.partial = NoneOpt
    /\ proof = NoneOpt

\* every unrevealed byte is b'X' and every marker occurrence is revealed
OnlyAuthenticated(pt, owns_game, doesnt_own, hash) ==
    /\ \A k \in 1..Len(pt.received) :
          (k - 1) \notin pt.recv_authed => pt.received[k] = 88
    /\ \A k \in 1..Len(pt.sent) :
          (k - 1) \notin pt.sent_authed => pt.sent[k] = 88
    /\ \A m \in {TRUE_MARKER, FALSE_MARKER} :
          \A off \in 0..Len(pt.received) :
             OccursAt(pt.received, m, off)
                => Range(off, off + Len(m)) \subseteq pt.recv_authed
    /\ owns_game => \E off \in 0..Len(pt.received) :
                       OccursAt(pt.received, TRUE_MARKER, off)
    /\ doesnt_own => \E off \in 0..Len(pt.received) :
                       OccursAt(pt.received, FALSE_MARKER, off)
    /\ IsSome(hash) => Unwrap(hash).data = pt.received

(* C7: in verifier and export every unrevealed transcript byte is b'X'      *)
(* when the markers are scanned and the hash is taken, and every marker     *)
(* occurrence the scan can find lies wholly in revealed positions.          *)
C7_OnlyAuthenticatedBytes ==
    /\ IsSome(verifier.partial)
          => OnlyAuthenticated(Unwrap(verifier.partial), verifier.owns_game,
                               verifier.doesnt_own, verifier.transcript_hash)
    /\ IsSome(export.partial)
          => OnlyAuthenticated(Unwrap(export.partial), export.owns_game,
                               export.doesnt_own, export.transcript_hash)

C7_Witness ==
    /\ IsSome(verifier.partial)
    /\ verifier.owns_game
    /\ LET pt == Unwrap(verifier.partial)
       IN  /\ \E k \in 1..Len(pt.received) : (k - 1) \notin pt.recv_authed
           /\ \E off \in 0..Len(pt.received) :
                 /\ OccursAt(pt.received, TRUE_MARKER, off)
                 /\ Range(off, off + Len(TRUE_MARKER)) \subseteq pt.recv_authed

(* C8: present reveals exactly the Host header line of the request on the   *)
(* sent side and exactly the matched "appid":<app_id> range on the          *)
(* received side; after verification every other byte is b'X'.              *)
C8_DisclosureMinimality ==
    IsSome(present.built) =>
        LET secrets == Unwrap(present.secrets)
            pattern == app_id_pattern(present.app_id)
            match_start == Find(secrets.received, pattern)
            host_start == Len(RequestLine(API_KEY, STEAM_ID, present.app_id)) + 2
            sent_revealed == Range(host_start, host_start + Len(HostHeader))
            recv_revealed == Range(match_start, match_start + Len(pattern))
        IN  /\ present.sent_authed = sent_revealed
            /\ present.recv_authed = recv_revealed
            /\ (verifier.pres = present.built /\ IsSome(verifier.partial))
                  => LET pt == Unwrap(verifier.partial)
                     IN  /\ \A k \in 1..Len(pt.sent) :
                               (k - 1) \notin sent_revealed => pt.sent[k] = 88
                         /\ \A k \in 1..Len(pt.received) :
                               (k - 1) \notin recv_revealed => pt.received[k] = 88

(* C9: when "appid":<app_id> does not occur in the plaintext received       *)
(* bytes, present ends in an error with no range revealed, no presentation  *)
(* built and nothing written; it locates a range exactly when the marker    *)
(* occurs.                                                                  *)
C9_PatternNotFound ==
    IsSome(present.secrets) =>
        LET occurs == Contains(Unwrap(present.secrets).received,
                               app_id_pattern(present.app_id))
        IN  /\ (present.pc # "find") => (IsSome(present.game_range) <=> occurs)
            /\ (present.pc # "find" /\ ~occurs)
                  => /\ present.pc = "done"
                     /\ present.result = "err"
                     /\ present.recv_authed = {}
                     /\ present.sent_authed = {}
                     /\ present.built = NoneOpt
                     /\ presentation = NoneOpt

C9_Witness ==
    /\ present.pc = "done"
    /\ IsSome(present.secrets)
    /\ ~Contains(Unwrap(present.secrets).received, app_id_pattern(present.app_id))
    /\ Contains(Unwrap(present.secrets).received, FALSE_MARKER)
    /\ present.result = "err"
    /\ presentation = NoneOpt

(* C10: find_recovery_id returns an id in {0, 1} only when the key          *)
(* recovered from the signature and the given hash under that id is the     *)
(* notary key, preferring 0; it fails when neither id matches.  A written   *)
(* proof has signature_v = id + 27, and no proof is written when the        *)
(* search fails.                                                            *)
C10_RecoveryIdSearch ==
    /\ IsSome(export.recovery_id)
          => LET id == Unwrap(export.recovery_id)
                 key == Unwrap(export.pres).key
                 sig == Unwrap(export.output).signature
                 hash == Unwrap(export.sha256_hash)
             IN  /\ id \in {0, 1}
                 /\ recover_from_prehash(hash, sig, id) = key.data
                 /\ id = 1 => recover_from_prehash(hash, sig, 0) # key.data
    /\ (IsSome(export.sha256_hash) /\ export.pc = "done" /\ export.result = "err")
          => LET key == Unwrap(export.pres).key
                 sig == Unwrap(export.output).signature
                 hash == Unwrap(export.sha256_hash)
             IN  /\ \A id \in {0, 1} : recover_from_prehash(hash, sig, id) # key.data
                 /\ proof = NoneOpt
    /\ IsSome(proof)
          => /\ IsSome(export.recovery_id)
             /\ Unwrap(proof).signature_v = Unwrap(export.recovery_id) + 27
             /\ Unwrap(proof).signature_v \in {27, 28}

C10_Witness ==
    /\ IsSome(proof)
    /\ Unwrap(proof).signature_v = 28
    /\ Unwrap(export.recovery_id) = 1

C12_HashCoversFullTranscript ==
    /\ (IsSome(verifier.transcript_hash) /\ IsSome(verifier.partial))
          => LET pt == Unwrap(verifier.partial)
             IN  Unwrap(verifier.transcript_hash) = Sha256(pt.sent \o pt.received)
    /\ (IsSome(export.transcript_hash) /\ IsSome(export.partial))
          => LET pt == Unwrap(export.partial)
             IN  Unwrap(export.transcript_hash) = Sha256(pt.sent \o pt.received)

(* C13: the verifier process exits non-zero on every fatal error, and       *)
(* never prints the boolean outcome "no" on stdout for one, so that an      *)
(* error differs from a verified outcome of false in what is reported.      *)
C13_VerifierReporting ==
    (verifier.pc = "done" /\ ~Unwrap(verifier.result).ok)
        => /\ verifier.exit_code # 0
           /\ verifier.stdout # "no"

(* C14: whenever export writes a proof for a presentation, verify() on the  *)
(* same presentation succeeds too, and both report the same outcome, the    *)
(* same timestamp and the same transcript hash.                             *)
C14_ExportAgreesWithVerifier ==
    (/\ IsSome(proof)
     /\ verifier.pc \in {"exit", "done"}
     /\ verifier.pres = export.pres)
        => /\ VerifierOk
           /\ Unwrap(verifier.result).owns_game = Unwrap(proof).owns_game
           /\ Unwrap(verifier.result).timestamp = Unwrap(proof).timestamp
           /\ Unwrap(verifier.result).transcript_hash = Unwrap(proof).transcript_hash

(* C15: whenever present finds the pattern, the range it reveals is         *)
(* [match_start, match_start + pattern_length) in byte offsets of the raw   *)
(* received transcript: it starts at the first occurrence, lies within the  *)
(* transcript, and the raw bytes inside it equal the pattern.               *)
C15_RangeInRawOffsets ==
    IsSome(present.game_range) =>
        LET received == Unwrap(present.secrets).received
            pattern == app_id_pattern(present.app_id)
            game_range == Unwrap(present.game_range)
        IN  /\ game_range.start = Find(received, pattern)
            /\ game_range.end = game_range.start + Len(pattern)
            /\ game_range.end <= Len(received)
            /\ Slice(received, game_range.start, game_range.end) = pattern

====
